---- MODULE Spec2Model ----
(***************************************************************************)
(* rust/upb: OwnedData (owned_data.rs) and encode / decode_new / decode    *)
(* (wire.rs), as a state machine over arenas, the objects allocated in     *)
(* them, the live OwnedData values and the loose Arena handles a caller    *)
(* holds.  One action per public operation; each action is a whole call.   *)
(*                                                                         *)
(* Arena, upb_Message_New, upb_Encode and upb_Decode are not part of the   *)
(* two files: they are modelled from the specification (sections 3, 4.2,   *)
(* 4.3) and marked so where they are defined.                              *)
(***************************************************************************)
EXTENDS Integers, Sequences, FiniteSets, TLC

\* ------------------------------------------------------------- bounds
MaxArenas == 2
MaxOwned == 1
MaxLen == 2
MaxClones == 1

ArenaIds == 1..MaxArenas
Slots == 1..MaxOwned

\* ---------------------------------------------------- status enumerations
\* DecodeStatus with Malformed and OutOfMemory renumbered.
DecodeStatus_renumbered ==
  [Ok |-> 0, Malformed |-> 2, OutOfMemory |-> 1, BadUtf8 |-> 3,
   MaxDepthExceeded |-> 4, MissingRequired |-> 5, UnlinkedSubMessage |-> 6]

\* wire.rs:10-15, #[repr(C)] discriminants.
EncodeStatus ==
  [Ok |-> 0, OutOfMemory |-> 1, MaxDepthExceeded |-> 2, MissingRequired |-> 3]

\* wire.rs:21-29, #[repr(C)] discriminants.
DecodeStatus ==
  [Ok |-> 0, Malformed |-> 1, OutOfMemory |-> 2, BadUtf8 |-> 3,
   MaxDepthExceeded |-> 4, MissingRequired |-> 5, UnlinkedSubMessage |-> 6]

\* std::ptr::null_mut() (wire.rs:41): the address no allocation has.
NULL == 0

\* ------------------------------------------ messages, schemas, wire bytes
\* A message has two string fields, each unset (0) or set (1).  Both mini
\* tables describe that layout; mini table 2 marks field 1 required.  On the
\* wire a record is a tag byte and a value byte; value 2 is text that is not
\* UTF-8, tag 3 is a sub-message field (nested too deep under mini table 1,
\* not linked under mini table 2), tag 0 is no field.
Fields == {1, 2}
FieldValues == 0..1
MiniTables == {1, 2}
Bytes == 0..3
SubMessageTag == 3
Required(mt) == IF mt = 2 THEN {1} ELSE {}
EmptyFields == [k \in Fields |-> 0]

Nothing == [none |-> TRUE]
Freed == [kind |-> "freed"]
NoObject == [kind |-> "none"]
BytesObj(bs) == [kind |-> "bytes", bytes |-> bs]
MsgObj(f) == [kind |-> "msg", f |-> f]

RECURSIVE SeqsUpTo(_, _)
SeqsUpTo(S, n) ==
  IF n = 0 THEN {<<>>}
  ELSE LET shorter == SeqsUpTo(S, n - 1)
       IN  shorter \cup {Append(s, b) : s \in shorter, b \in S}

\* The byte slices a caller can write down itself.
CallerBuffers == SeqsUpTo(Bytes, MaxLen)

VARIABLES
  region,   \* ArenaIds -> "free" | "live": the allocation region at that address
  refs,     \* ArenaIds -> number of Arena handles the region counts
  heap,     \* ArenaIds -> the object allocated in the region (address = id)
  owned,    \* Slots -> a live OwnedData {data, arena}, or Nothing
  origin,   \* Slots -> history: how owned[s] was built, what its data was then
  encoded,  \* ArenaIds -> history: what the buffer in the region was encoded from
  held,     \* ArenaIds -> number of loose Arena handles the caller holds
  ret       \* the outcome of the last call

vars == <<region, refs, heap, owned, origin, encoded, held, ret>>

\* ------------------------------------------------------------ Arena
\* crate::Arena is outside the two files; modelled from spec section 3:
\* handles may be cloned, all clones name one region, and the region is
\* freed, as one unit, when the last handle is dropped.  A memory is the
\* record [region, refs, heap].
Mem == [region |-> region, refs |-> refs, heap |-> heap]

UnusedArenas(M) == {a \in ArenaIds : M.region[a] = "free"}

\* Arena::new(): a region at the lowest free address, with one handle.
FreshArena(M) == CHOOSE a \in UnusedArenas(M) : \A b \in UnusedArenas(M) : a <= b

Arena_new(M) ==
  LET a == FreshArena(M)
  IN  [region |-> [M.region EXCEPT ![a] = "live"],
       refs |-> [M.refs EXCEPT ![a] = 1],
       heap |-> [M.heap EXCEPT ![a] = NoObject]]

Arena_clone(M, a) == [M EXCEPT !.refs[a] = @ + 1]

\* Drop of one Arena handle: the last one frees the region and all in it.
Arena_drop(M, a) ==
  IF M.refs[a] = 1
  THEN [region |-> [M.region EXCEPT ![a] = "free"],
        refs |-> [M.refs EXCEPT ![a] = 0],
        heap |-> [M.heap EXCEPT ![a] = Freed]]
  ELSE [M EXCEPT !.refs[a] = @ - 1]

RECURSIVE DropAll(_, _)
DropAll(M, as) ==
  IF as = {} THEN M
  ELSE LET a == CHOOSE x \in as : TRUE
       IN  DropAll(Arena_drop(M, a), as \ {a})

\* A foreign routine stores obj at the (single) address of region a.
Store(M, a, obj) == [M EXCEPT !.heap[a] = obj]

\* ------------------------------------------------------ reading memory
AllFields == [Fields -> FieldValues]

\* What a read through a dangling or mistyped pointer can produce.
UndefinedRead ==
  {[kind |-> "crash"]}
    \cup {BytesObj(b) : b \in CallerBuffers}
    \cup {MsgObj(f) : f \in AllFields}

\* NonNull::as_ref on a data handle: [ptr, len] is a slice, [ptr] a message.
Load(M, d) ==
  IF d.ptr = NULL \/ M.region[d.ptr] # "live" THEN UndefinedRead
  ELSE LET obj == M.heap[d.ptr]
       IN  IF "len" \in DOMAIN d
           THEN IF obj.kind = "bytes" /\ d.len <= Len(obj.bytes)
                THEN {BytesObj(SubSeq(obj.bytes, 1, d.len))}
                ELSE UndefinedRead
           ELSE IF obj.kind = "msg" THEN {obj} ELSE UndefinedRead

\* The handle to the object stored in region a.
HandleOf(M, a) ==
  IF M.heap[a].kind = "bytes"
  THEN [ptr |-> a, len |-> Len(M.heap[a].bytes)]
  ELSE [ptr |-> a]

\* ------------------------------------------------------------ OwnedData
\* owned_data.rs:22-24
OwnedData_new(data, arena) == [data |-> data, arena |-> arena]

\* owned_data.rs:26-28
OwnedData_data(o) == o.data

\* owned_data.rs:30-34 (Deref::deref and AsRef::as_ref call it, 41-52): the
\* set of values the borrow can yield.
OwnedData_as_ref(o, M) == Load(M, o.data)

\* into_parts that lets the arena go out of scope.
OwnedData_into_parts_drops(o) == [data |-> o.data, arena |-> o.arena, drop |-> {o.arena}]

\* owned_data.rs:36-38: the parts, and the Arena handles dropped on the way.
OwnedData_into_parts(o) == [data |-> o.data, arena |-> o.arena, drop |-> {}]

\* A wrapper that forgets its arena instead of dropping it.
OwnedData_drop_forgets(o) == {}

\* Drop glue of the struct (owned_data.rs:9-12): the arena field is dropped.
OwnedData_drop(o) == {o.arena}

\* -------------------------------------------------- the foreign routines
\* upb_Message_New, upb_Encode and upb_Decode are declared (wire.rs:94-113)
\* or imported (wire.rs:1-4), not defined, in the two files; their behaviour
\* is modelled from spec sections 4.2, 4.3 and 8.

\* upb_Message_New(mini_table, arena): Some(message) or, when the arena
\* cannot allocate, None.
upb_Message_New(mt, a) == {Nothing, [ptr |-> a]}

\* The wire form of a message: for each set field, in field order, its tag
\* byte and its value byte.
WireOf(f) ==
  (IF f[1] # 0 THEN <<1, f[1]>> ELSE <<>>) \o (IF f[2] # 0 THEN <<2, f[2]>> ELSE <<>>)

MissingRequired(mt, f) == \E k \in Required(mt) : f[k] = 0

\* Conditions the wire bytes do not decide.
EncodeFaults == {EncodeStatus.OutOfMemory, EncodeStatus.MaxDepthExceeded}
DecodeFaults == {DecodeStatus.OutOfMemory}

\* upb_Encode(msg, mini_table, 0, arena, &buf, &len): the responses
\* [status, buf, len, bytes] it can give.  A trusted encoder never pairs Ok
\* with a null buf (section 4.2); an untrusted one may.
upb_Encode(obj, mt, a, trusted) ==
  {[status |-> s, buf |-> NULL, len |-> 0, bytes |-> <<>>] : s \in EncodeFaults}
    \cup (IF MissingRequired(mt, obj.f)
          THEN {[status |-> EncodeStatus.MissingRequired, buf |-> NULL, len |-> 0,
                 bytes |-> <<>>]}
          ELSE {[status |-> EncodeStatus.Ok, buf |-> a, len |-> Len(WireOf(obj.f)),
                 bytes |-> WireOf(obj.f)]})
    \cup (IF trusted THEN {}
          ELSE {[status |-> EncodeStatus.Ok, buf |-> NULL, len |-> n, bytes |-> <<>>] :
                  n \in 0..MaxLen})

\* The decoder reads records <<tag, value>> from position i on, merging each
\* into f as it goes; it stops at the first error and leaves f as it is
\* then.  fault strikes before record number faultAt (0: no fault).
RECURSIVE Parse(_, _, _, _, _, _)
Parse(buf, i, f, mt, faultAt, fault) ==
  IF faultAt = (i + 1) \div 2 THEN [status |-> fault, f |-> f]
  ELSE IF i > Len(buf)
  THEN [status |-> IF MissingRequired(mt, f) THEN DecodeStatus.MissingRequired
                   ELSE DecodeStatus.Ok,
        f |-> f]
  ELSE IF buf[i] = SubMessageTag
  THEN [status |-> IF mt = 1 THEN DecodeStatus.MaxDepthExceeded
                   ELSE DecodeStatus.UnlinkedSubMessage,
        f |-> f]
  ELSE IF buf[i] \notin Fields \/ i + 1 > Len(buf)
  THEN [status |-> DecodeStatus.Malformed, f |-> f]
  ELSE IF buf[i + 1] \notin FieldValues
  THEN [status |-> DecodeStatus.BadUtf8, f |-> f]
  ELSE Parse(buf, i + 2, [f EXCEPT ![buf[i]] = buf[i + 1]], mt, faultAt, fault)

\* upb_Decode(buf, len, msg, mini_table, null, 0, arena): the responses
\* [status, f] it can give, f the fields it leaves in msg.
upb_Decode(buf, obj, mt) ==
  {Parse(buf, 1, obj.f, mt, 0, DecodeStatus.Ok)}
    \cup {Parse(buf, 1, obj.f, mt, k, s) :
            k \in 1..(Len(buf) \div 2 + 1), s \in DecodeFaults}

\* ----------------------------------------------------------------- wire.rs
\* encode that lets the arena go out of scope although it returns the buffer.
encode_dropsArena(resp, arena) ==
  IF resp.status = EncodeStatus.Ok
  THEN IF resp.buf = NULL
       THEN [tag |-> "Panic", drop |-> {arena}]
       ELSE [tag |-> "Ok",
             val |-> OwnedData_new([ptr |-> resp.buf, len |-> resp.len], arena),
             drop |-> {arena}]
  ELSE [tag |-> "Err", status |-> resp.status, drop |-> {arena}]

\* encode without the assertion of wire.rs:45.
encode_unchecked(resp, arena) ==
  IF resp.status = EncodeStatus.Ok
  THEN [tag |-> "Ok",
        val |-> OwnedData_new([ptr |-> resp.buf, len |-> resp.len], arena),
        drop |-> {}]
  ELSE [tag |-> "Err", status |-> resp.status, drop |-> {arena}]

\* encode that keeps the arena alive (mem::forget) when it fails.
encode_leaks(resp, arena) ==
  IF resp.status = EncodeStatus.Ok
  THEN IF resp.buf = NULL
       THEN [tag |-> "Panic", drop |-> {arena}]
       ELSE [tag |-> "Ok",
             val |-> OwnedData_new([ptr |-> resp.buf, len |-> resp.len], arena),
             drop |-> {}]
  ELSE [tag |-> "Err", status |-> resp.status, drop |-> {}]

\* wire.rs:36-52, from upb_Encode's response on; drop: the Arena handles
\* that go out of scope (by return or by unwinding).
encode(resp, arena) ==
  IF resp.status = EncodeStatus.Ok
  THEN IF resp.buf = NULL
       THEN [tag |-> "Panic", drop |-> {arena}]
       ELSE [tag |-> "Ok",
             val |-> OwnedData_new([ptr |-> resp.buf, len |-> resp.len], arena),
             drop |-> {}]
  ELSE [tag |-> "Err", status |-> resp.status, drop |-> {arena}]

\* decode with a catch-all error: every failure becomes Malformed.
decode_collapsed(status) ==
  IF status = DecodeStatus.Ok THEN [tag |-> "Ok"]
  ELSE [tag |-> "Err", status |-> DecodeStatus.Malformed]

\* decode that does not look at the status.
decode_ignoresStatus(status) == [tag |-> "Ok"]

\* wire.rs:79-92, from upb_Decode's status on.
decode(status) ==
  IF status = DecodeStatus.Ok THEN [tag |-> "Ok"] ELSE [tag |-> "Err", status |-> status]

\* wire.rs:62: upb_Message_New(..).unwrap().
decode_new_unwrap(created) == created # Nothing

\* decode_new that keeps the arena alive (mem::forget) when decode fails.
decode_new_leaks(msg, result, arena) ==
  IF result.tag = "Ok"
  THEN [tag |-> "Ok", val |-> OwnedData_new(msg, arena), drop |-> {}]
  ELSE [tag |-> "Err", status |-> result.status, drop |-> {}]

\* wire.rs:65-70, from decode's result on.
decode_new(msg, result, arena) ==
  IF result.tag = "Ok"
  THEN [tag |-> "Ok", val |-> OwnedData_new(msg, arena), drop |-> {}]
  ELSE [tag |-> "Err", status |-> result.status, drop |-> {arena}]

\* ------------------------------------------------------------ the state
\* The caller makes one call at a time and looks at its outcome before the
\* next.
NoCall == [op |-> "none"]
Idle == ret = NoCall

Init ==
  /\ region = [a \in ArenaIds |-> "free"]
  /\ refs = [a \in ArenaIds |-> 0]
  /\ heap = [a \in ArenaIds |-> Freed]
  /\ owned = [s \in Slots |-> Nothing]
  /\ origin = [s \in Slots |-> Nothing]
  /\ encoded = [a \in ArenaIds |-> Nothing]
  /\ held = [a \in ArenaIds |-> 0]
  /\ ret = NoCall

\* The memory becomes M; a region that is freed forgets its history.
Commit(M) ==
  /\ region' = M.region
  /\ refs' = M.refs
  /\ heap' = M.heap

Forget(M, e) == [a \in ArenaIds |-> IF M.region[a] = "live" THEN e[a] ELSE Nothing]

\* The Arena handles in existence beyond the first of each region.
RECURSIVE Clones(_)
Clones(S) ==
  IF S = {} THEN 0
  ELSE LET a == CHOOSE x \in S : TRUE
       IN  (IF refs[a] > 1 THEN refs[a] - 1 ELSE 0) + Clones(S \ {a})

FreeSlots == {s \in Slots : owned[s] = Nothing}
FreeSlot == CHOOSE s \in FreeSlots : \A t \in FreeSlots : s <= t
CanCreate == UnusedArenas(Mem) # {} /\ FreeSlots # {}

\* The value a handle refers to when an OwnedData is built around it.
OriginOf(M, d) ==
  LET vs == Load(M, d)
  IN  IF Cardinality(vs) = 1 THEN CHOOSE v \in vs : TRUE ELSE [kind |-> "undefined"]

\* History of the OwnedData built as o in memory M: the pair it was built
\* from and the value its handle referred to.
Built(data, arena, M) ==
  [made |-> [data |-> data, arena |-> arena], val |-> OriginOf(M, data)]

LiveMessages == {p \in ArenaIds : region[p] = "live" /\ heap[p].kind = "msg"}
Wrapped(p) == \E s \in Slots : owned[s] # Nothing /\ owned[s].data.ptr = p
SliceSlots == {s \in Slots : owned[s] # Nothing /\ "len" \in DOMAIN owned[s].data}

\* The byte slices a caller can pass as buf: one it wrote itself, a borrow
\* of a live OwnedData<[u8]>, or the buffer of an arena it holds; from: what
\* that slice was encoded from, if anything.
LiveBuffers ==
  UNION {{[bytes |-> v.bytes, from |-> encoded[owned[s].arena]] :
            v \in {w \in OwnedData_as_ref(owned[s], Mem) : w.kind = "bytes"}} :
         s \in SliceSlots}
    \cup {[bytes |-> heap[a].bytes, from |-> encoded[a]] :
            a \in {b \in ArenaIds : held[b] > 0 /\ heap[b].kind = "bytes"}}

\* What upb_Decode can answer, over all the slices a caller can write, when
\* it decodes into a message with fields f under mini table mt.
CallerDecodes ==
  [f \in AllFields, mt \in MiniTables |->
     UNION {upb_Decode(b, MsgObj(f), mt) : b \in CallerBuffers}]

DecodeCalls(f, mt) ==
  {[from |-> Nothing, resp |-> x] : x \in CallerDecodes[f, mt]}
    \cup UNION {{[from |-> arg.from, resp |-> x] : x \in upb_Decode(arg.bytes, MsgObj(f), mt)} :
                 arg \in LiveBuffers}

\* ------------------------------------------------------------- actions
\* encode(msg, mini_table) on a live message p (wire.rs:36-52).
Encode(trusted) ==
  /\ Idle
  /\ CanCreate
  /\ \E p \in LiveMessages, mt \in MiniTables :
       LET a == FreshArena(Mem)
           M1 == Arena_new(Mem)
       IN  \E resp \in upb_Encode(heap[p], mt, a, trusted) :
             LET M2 == IF resp.buf # NULL THEN Store(M1, a, BytesObj(resp.bytes)) ELSE M1
                 r == encode(resp, a)
                 ok == r.tag = "Ok"
             IN  /\ Commit(DropAll(M2, r.drop))
                 /\ owned' = IF ok THEN [owned EXCEPT ![FreeSlot] = r.val] ELSE owned
                 /\ origin' = IF ok
                              THEN [origin EXCEPT ![FreeSlot] =
                                      Built([ptr |-> resp.buf, len |-> resp.len], a, M2)]
                              ELSE origin
                 /\ encoded' = Forget(DropAll(M2, r.drop),
                                      [encoded EXCEPT ![a] = [mt |-> mt, f |-> heap[p].f]])
                 /\ held' = held
                 /\ ret' = [op |-> "encode", result |-> r,
                            foreign |-> [status |-> resp.status, buf |-> resp.buf,
                                         len |-> resp.len],
                            arena |-> a, slot |-> FreeSlot]

\* decode_new(buf, mini_table) (wire.rs:56-71).
DecodeNew ==
  /\ Idle
  /\ CanCreate
  /\ \E mt \in MiniTables :
       LET a == FreshArena(Mem)
           M1 == Arena_new(Mem)
       IN  \E created \in upb_Message_New(mt, a) :
             IF ~decode_new_unwrap(created)
             THEN /\ Commit(DropAll(M1, {a}))
                  /\ UNCHANGED <<owned, origin, encoded, held>>
                  /\ ret' = [op |-> "decode_new", result |-> [tag |-> "Panic", drop |-> {a}],
                             arena |-> a, slot |-> FreeSlot, mt |-> mt]
             ELSE LET M2 == Store(M1, a, MsgObj(EmptyFields))
                  IN  \E call \in DecodeCalls(EmptyFields, mt) :
                        LET resp == call.resp
                            M3 == Store(M2, a, MsgObj(resp.f))
                            r == decode_new(created, decode(resp.status), a)
                            ok == r.tag = "Ok"
                        IN  /\ Commit(DropAll(M3, r.drop))
                            /\ owned' = IF ok THEN [owned EXCEPT ![FreeSlot] = r.val]
                                        ELSE owned
                            /\ origin' = IF ok
                                         THEN [origin EXCEPT ![FreeSlot] = Built(created, a, M3)]
                                         ELSE origin
                            /\ UNCHANGED <<encoded, held>>
                            /\ ret' = [op |-> "decode_new", result |-> r,
                                       foreign |-> [status |-> resp.status],
                                       arena |-> a, slot |-> FreeSlot, mt |-> mt,
                                       from |-> call.from]

\* decode(buf, msg, mini_table, &arena) (wire.rs:79-92) on a message p the
\* caller holds the arena of and no OwnedData wraps.
Decode ==
  \E p \in LiveMessages, mt \in MiniTables :
    /\ Idle
    /\ held[p] > 0
    /\ ~Wrapped(p)
    /\ \E resp \in {c.resp : c \in DecodeCalls(heap[p].f, mt)} :
         /\ Commit(Store(Mem, p, MsgObj(resp.f)))
         /\ UNCHANGED <<owned, origin, encoded, held>>
         /\ ret' = [op |-> "decode", result |-> decode(resp.status),
                    foreign |-> [status |-> resp.status], arena |-> p, mt |-> mt]

\* OwnedData::new(data, arena) on the object of an arena the caller holds
\* (owned_data.rs:22-24); the handle moves into the wrapper.
New ==
  \E a \in ArenaIds :
    /\ Idle
    /\ held[a] > 0
    /\ region[a] = "live"
    /\ heap[a].kind \in {"bytes", "msg"}
    /\ FreeSlots # {}
    /\ LET o == OwnedData_new(HandleOf(Mem, a), a)
       IN  /\ owned' = [owned EXCEPT ![FreeSlot] = o]
           /\ origin' = [origin EXCEPT ![FreeSlot] = Built(HandleOf(Mem, a), a, Mem)]
           /\ held' = [held EXCEPT ![a] = @ - 1]
           /\ ret' = [op |-> "new", slot |-> FreeSlot]
           /\ UNCHANGED <<region, refs, heap, encoded>>

\* data() (owned_data.rs:26-28).
Data ==
  \E s \in Slots :
    /\ Idle
    /\ owned[s] # Nothing
    /\ ret' = [op |-> "data", slot |-> s, val |-> OwnedData_data(owned[s])]
    /\ UNCHANGED <<region, refs, heap, owned, origin, encoded, held>>

\* as_ref() / deref() (owned_data.rs:30-52).
AsRef ==
  \E s \in Slots :
    /\ Idle
    /\ owned[s] # Nothing
    /\ \E v \in OwnedData_as_ref(owned[s], Mem) :
         ret' = [op |-> "as_ref", slot |-> s, val |-> v]
    /\ UNCHANGED <<region, refs, heap, owned, origin, encoded, held>>

\* into_parts() (owned_data.rs:36-38); the caller now holds the arena.
IntoParts ==
  \E s \in Slots :
    /\ Idle
    /\ owned[s] # Nothing
    /\ LET parts == OwnedData_into_parts(owned[s])
       IN  /\ Commit(DropAll(Mem, parts.drop))
           /\ encoded' = Forget(DropAll(Mem, parts.drop), encoded)
           /\ held' = [held EXCEPT ![parts.arena] = @ + 1]
           /\ ret' = [op |-> "into_parts", slot |-> s,
                      val |-> [data |-> parts.data, arena |-> parts.arena],
                      made |-> origin[s].made]
    /\ owned' = [owned EXCEPT ![s] = Nothing]
    /\ origin' = [origin EXCEPT ![s] = Nothing]

\* An OwnedData goes out of scope.
DropOwned ==
  \E s \in Slots :
    /\ Idle
    /\ owned[s] # Nothing
    /\ Commit(DropAll(Mem, OwnedData_drop(owned[s])))
    /\ encoded' = Forget(DropAll(Mem, OwnedData_drop(owned[s])), encoded)
    /\ owned' = [owned EXCEPT ![s] = Nothing]
    /\ origin' = [origin EXCEPT ![s] = Nothing]
    /\ ret' = [op |-> "drop", slot |-> s, arena |-> owned[s].arena]
    /\ UNCHANGED held

\* The caller clones an Arena handle it holds.
CloneArena ==
  \E a \in ArenaIds :
    /\ Idle
    /\ held[a] > 0
    /\ Clones(ArenaIds) < MaxClones
    /\ Commit(Arena_clone(Mem, a))
    /\ held' = [held EXCEPT ![a] = @ + 1]
    /\ ret' = [op |-> "arena_clone", arena |-> a]
    /\ UNCHANGED <<owned, origin, encoded>>

\* The caller drops an Arena handle it holds.
DropArena ==
  \E a \in ArenaIds :
    /\ Idle
    /\ held[a] > 0
    /\ Commit(Arena_drop(Mem, a))
    /\ encoded' = Forget(Arena_drop(Mem, a), encoded)
    /\ held' = [held EXCEPT ![a] = @ - 1]
    /\ ret' = [op |-> "arena_drop", arena |-> a]
    /\ UNCHANGED <<owned, origin>>

\* The caller has looked at the outcome of its last call.
Continue ==
  /\ ~Idle
  /\ ret' = NoCall
  /\ UNCHANGED <<region, refs, heap, owned, origin, encoded, held>>

\* Every Arena handle is the only one to its region (as the code moves
\* them: OwnedData::new takes the Arena, into_parts gives it back).
Next ==
  \/ Encode(TRUE)
  \/ DecodeNew
  \/ Decode
  \/ New
  \/ Data
  \/ AsRef
  \/ IntoParts
  \/ DropOwned
  \/ DropArena
  \/ Continue

Spec == Init /\ [][Next]_vars

\* As Spec, with an encoder that is not trusted to keep its contract.
NextFFI ==
  \/ Encode(FALSE)
  \/ DecodeNew
  \/ Decode
  \/ New
  \/ Data
  \/ AsRef
  \/ IntoParts
  \/ DropOwned
  \/ DropArena
  \/ Continue

SpecFFI == Init /\ [][NextFFI]_vars

\* Callers that share a region between several Arena handles (section 3);
\* the merge decode, which touches no handle, is left out.
NextShared ==
  \/ Encode(TRUE)
  \/ DecodeNew
  \/ New
  \/ Data
  \/ AsRef
  \/ IntoParts
  \/ DropOwned
  \/ CloneArena
  \/ DropArena
  \/ Continue

SpecShared == Init /\ [][NextShared]_vars

\* ------------------------------------------------------------ properties
WireCalls == {"encode", "decode_new", "decode"}
Returned(op) == ret.op = op
Failed == "result" \in DOMAIN ret /\ ret.result.tag = "Err"
Succeeded == "result" \in DOMAIN ret /\ ret.result.tag = "Ok"
Answered == "foreign" \in DOMAIN ret
OwnedSlots == {s \in Slots : owned[s] # Nothing}

\* The owning handles to region a: the caller's and the live wrappers'.
Holders(a) == held[a] + Cardinality({s \in OwnedSlots : owned[s].arena = a})

\* C1: while an OwnedData exists its arena is not released and a borrow
\* through it yields the very bytes or message it was built around, also
\* when every other handle to the arena has been dropped.
ArenaLiveness ==
  /\ \A s \in OwnedSlots :
       /\ region[owned[s].arena] = "live"
       /\ origin[s].val.kind \in {"bytes", "msg"}
       /\ OwnedData_as_ref(owned[s], Mem) = {origin[s].val}
  /\ Returned("as_ref") => ret.val = origin[ret.slot].val

\* The caller has just dropped its last other handle to the arena of an
\* encoded buffer, and the OwnedData around the buffer still reads it.
SoleHandleStillReads ==
  /\ Returned("arena_drop")
  /\ held[ret.arena] = 0
  /\ \E s \in OwnedSlots :
       /\ owned[s].arena = ret.arena
       /\ refs[ret.arena] = 1
       /\ origin[s].val.kind = "bytes"
       /\ OwnedData_as_ref(owned[s], Mem) = {origin[s].val}

\* C2: a wire call returns Err(s) exactly when the foreign routine reported
\* a status s other than Ok, with s passed on unchanged, and returns
\* success exactly when the foreign status is Ok.
StatusPassThrough ==
  (ret.op \in WireCalls /\ Answered) =>
    LET Ok == IF Returned("encode") THEN EncodeStatus.Ok ELSE DecodeStatus.Ok
    IN  /\ Failed <=> ret.foreign.status # Ok
        /\ Failed => ret.result.status = ret.foreign.status
        /\ Succeeded <=> ret.foreign.status = Ok

\* decode_new has returned the decoder's BadUtf8.
BadUtf8Returned ==
  /\ Returned("decode_new")
  /\ Failed
  /\ ret.foreign.status = DecodeStatus.BadUtf8
  /\ ret.result.status = DecodeStatus.BadUtf8

\* C3: a decode_new that does not succeed releases its fresh arena and
\* yields no OwnedData; one that succeeds returns an OwnedData pairing the
\* new message with that same arena.
DecodeNewAllOrNothing ==
  Returned("decode_new") =>
    IF Succeeded
    THEN /\ owned[ret.slot] = [data |-> [ptr |-> ret.arena], arena |-> ret.arena]
         /\ owned[ret.slot] = ret.result.val
         /\ region[ret.arena] = "live"
         /\ heap[ret.arena].kind = "msg"
    ELSE /\ "val" \notin DOMAIN ret.result
         /\ region[ret.arena] = "free"
         /\ refs[ret.arena] = 0
         /\ held[ret.arena] = 0
         /\ \A s \in OwnedSlots :
              owned[s].arena # ret.arena /\ owned[s].data.ptr # ret.arena

\* decode_new has failed on a malformed buffer.
DecodeNewFailed ==
  /\ Returned("decode_new")
  /\ Failed
  /\ ret.result.status = DecodeStatus.Malformed
  /\ region[ret.arena] = "free"

\* C4: an Ok from encode never carries a null buffer, zero-length output
\* included, and the returned slice has the length the encoder reported.
EncodeOkNonNull ==
  /\ (Returned("encode") /\ Succeeded) =>
       /\ owned[ret.slot] = ret.result.val
       /\ owned[ret.slot].data.ptr # NULL
       /\ owned[ret.slot].data.ptr = ret.foreign.buf
       /\ owned[ret.slot].data.len = ret.foreign.len
  /\ (Returned("encode") /\ ret.foreign.status = EncodeStatus.Ok /\ ret.foreign.buf = NULL)
       => ~Succeeded

\* encode has returned an empty, non-null slice.
EmptyEncodeOk ==
  /\ Returned("encode")
  /\ Succeeded
  /\ ret.foreign.len = 0
  /\ owned[ret.slot].data.len = 0
  /\ owned[ret.slot].data.ptr # NULL

\* A decode_new of a buffer that encode produced under the same mini table.
RoundTripCall == Returned("decode_new") /\ "from" \in DOMAIN ret
                   /\ ret.from # Nothing /\ ret.from.mt = ret.mt

WrapperPassThrough ==
  /\ \A s \in OwnedSlots : owned[s] = origin[s].made
  /\ Returned("data") =>
       owned[ret.slot] # Nothing /\ ret.val = origin[ret.slot].made.data
  /\ Returned("as_ref") =>
       owned[ret.slot] # Nothing /\ ret.val = origin[ret.slot].val
  /\ Returned("into_parts") =>
       /\ ret.val = ret.made
       /\ owned[ret.slot] = Nothing
       /\ region[ret.val.arena] = "live"
       /\ held[ret.val.arena] >= 1
       /\ Cardinality(Load(Mem, ret.val.data)) = 1

\* An encoded buffer's wrapper has been decomposed into its parts.
PartsReturned ==
  /\ Returned("into_parts")
  /\ "len" \in DOMAIN ret.val.data
  /\ ret.val = ret.made
  /\ region[ret.val.arena] = "live"

\* C7 as stated: every wire call ends by returning a success value or a
\* status, whatever the foreign routines answer.
AlwaysReturns ==
  ret.op \in WireCalls => ret.result.tag \in {"Ok", "Err"}

\* The effect of a wire call that returns success, over the step that
\* makes the call.
SuccessComplete ==
  (ret'.op \in WireCalls /\ ret'.result.tag = "Ok") =>
    LET M == [region |-> region', refs |-> refs', heap |-> heap']
    IN  /\ ret'.op = "encode" =>
             /\ owned[ret'.slot] = Nothing
             /\ OwnedData_as_ref(owned'[ret'.slot], M)
                  = {BytesObj(WireOf(encoded'[ret'.arena].f))}
        /\ ret'.op = "decode_new" =>
             /\ owned[ret'.slot] = Nothing
             /\ \E v \in OwnedData_as_ref(owned'[ret'.slot], M) :
                  v.kind = "msg" /\ ~MissingRequired(ret'.mt, v.f)
        /\ ret'.op = "decode" =>
             heap'[ret'.arena].kind = "msg"
               /\ ~MissingRequired(ret'.mt, heap'[ret'.arena].f)

\* C8 as stated: a wire call that returns a status other than Ok leaves
\* everything the caller can observe as it was before the call, decode's
\* message included, and one that returns success has had its whole effect.
AtomicCalls ==
  [][/\ (ret'.op \in WireCalls /\ ret'.result.tag = "Err") =>
          /\ heap' = heap
          /\ region' = region
          /\ refs' = refs
          /\ owned' = owned
          /\ held' = held
     /\ SuccessComplete]_vars

\* C8: a failing encode or decode_new leaves everything the caller can
\* observe as it was; a failing decode leaves every arena, every handle and
\* every other object as it was, and may leave the caller's message with
\* the fields merged before the failure; a call that returns success has
\* had its whole effect.
AtomicExceptMerge ==
  [][/\ (ret'.op \in WireCalls /\ ret'.result.tag = "Err") =>
          /\ region' = region
          /\ refs' = refs
          /\ owned' = owned
          /\ held' = held
          /\ \A a \in ArenaIds :
               \/ heap'[a] = heap[a]
               \/ /\ ret'.op = "decode"
                  /\ a = ret'.arena
                  /\ heap[a].kind = "msg"
                  /\ heap'[a].kind = "msg"
     /\ SuccessComplete]_vars

\* A decode has failed for a missing required field after it merged
\* another field into the caller's message.
MergeFailedHalfway ==
  /\ Returned("decode")
  /\ Failed
  /\ ret.result.status = DecodeStatus.MissingRequired
  /\ heap[ret.arena].f # EmptyFields

\* C9: the discriminants of EncodeStatus and DecodeStatus are the pinned,
\* pairwise distinct numbers; every status a call returns is one of them;
\* Ok is the only one treated as success.
PinnedDiscriminants ==
  /\ EncodeStatus = [Ok |-> 0, OutOfMemory |-> 1, MaxDepthExceeded |-> 2,
                     MissingRequired |-> 3]
  /\ DecodeStatus = [Ok |-> 0, Malformed |-> 1, OutOfMemory |-> 2, BadUtf8 |-> 3,
                     MaxDepthExceeded |-> 4, MissingRequired |-> 5,
                     UnlinkedSubMessage |-> 6]
  /\ \A x, y \in DOMAIN EncodeStatus : EncodeStatus[x] = EncodeStatus[y] => x = y
  /\ \A x, y \in DOMAIN DecodeStatus : DecodeStatus[x] = DecodeStatus[y] => x = y
  /\ (Returned("encode") /\ Failed) => ret.result.status \in 1..3
  /\ (ret.op \in {"decode_new", "decode"} /\ Failed) => ret.result.status \in 1..6
  /\ (ret.op \in WireCalls /\ Succeeded) => ret.foreign.status = 0
  /\ (ret.op \in WireCalls /\ Answered /\ ret.foreign.status # 0) => ~Succeeded

\* decode has returned the decoder's OutOfMemory, discriminant 2.
OutOfMemoryIsTwo ==
  /\ Returned("decode")
  /\ Failed
  /\ ret.foreign.status = 2
  /\ ret.result.status = DecodeStatus.OutOfMemory

\* C10: an arena is released exactly when no owning handle to it remains;
\* encode and decode_new create one fresh arena, which the returned
\* OwnedData alone owns on success and which is released otherwise; decode
\* creates, releases and takes no arena.
HandleDiscipline ==
  [][/\ \A a \in ArenaIds :
          /\ region'[a] = "live" <=> Holders(a)' >= 1
          /\ refs'[a] = Holders(a)'
     /\ ret'.op \in {"encode", "decode_new"} =>
          /\ region[ret'.arena] = "free"
          /\ \A b \in ArenaIds \ {ret'.arena} : region'[b] = region[b] /\ refs'[b] = refs[b]
          /\ held' = held
          /\ IF ret'.result.tag = "Ok"
             THEN /\ region'[ret'.arena] = "live"
                  /\ refs'[ret'.arena] = 1
                  /\ held'[ret'.arena] = 0
                  /\ owned'[ret'.slot].arena = ret'.arena
             ELSE /\ region'[ret'.arena] = "free"
                  /\ owned' = owned
     /\ ret'.op = "decode" =>
          /\ region' = region
          /\ refs' = refs
          /\ held' = held
          /\ owned' = owned]_vars

\* The last handle to an arena, the one inside an OwnedData, has just been
\* dropped and the arena is released.
LastHandleDropped ==
  /\ Returned("drop")
  /\ region[ret.arena] = "free"
  /\ heap[ret.arena] = Freed
  /\ Holders(ret.arena) = 0

====
